---- MODULE Spec2Model ----
(***************************************************************************)
(* boto3.sqs.queue.BatchSender: a client-side buffer that groups entries   *)
(* given to send_message into send_message_batch calls of at most          *)
(* flush_amount entries, re-buffers the entries the remote reports as      *)
(* server-caused failures, raises ClientError for caller-caused failures   *)
(* and drains the buffer in __exit__.                                      *)
(*                                                                         *)
(* An entry of the buffer is the kwargs dict of send_message; the model    *)
(* adds the history field seq (the number of the accepting send_message    *)
(* call) which no operation of the code reads.                             *)
(***************************************************************************)
EXTENDS Integers, Sequences, FiniteSets, TLC

\* ------------------------------------------------------------------ bounds
MaxSends == 3      \* send_message calls that buffer an entry
MaxCalls == 2      \* send_message_batch calls
MaxFailed == 2     \* records of one response's "Failed" list
MaxId == 3         \* distinct Ids
MaxRetries == 1    \* server-caused reports in all, where the remote is taken to
                   \*   report each entry as server-caused finitely often

Ids == 1..MaxId
Bodies == {"b"}
FlushAmountArgs == {-7, -1, 0, 1, 2, 10, 11, 64}

\* the default of the flush_amount parameter of __init__
DefaultFlushAmount == 10

\* the ways __init__ is called: without flush_amount, or with one
CtorArgs ==
    {[given |-> FALSE]} \cup {[given |-> TRUE, flush_amount |-> a] : a \in FlushAmountArgs}

\* ------------------------------------------------------------------ state
VARIABLES
    messages_buffer,   \* self._messages_buffer
    overwrite_by_id,   \* self._overwrite_by_id
    flush_amount,      \* self._flush_amount
    pc,                \* "idle": no call in progress; "exit": inside the loop of __exit__
    accepted,          \* history: the entries send_message has buffered, in order
    replaced,          \* history: the entries _remove_dup_ids_entry_if_any removed, each with
                       \*   the entry sent instead, the number of remote calls made before
                       \*   and the entries the buffer held ahead of the new one
    calls,             \* history: the send_message_batch calls and their outcomes
    exit,              \* history: the latest __exit__ invocation: whether there was one,
                       \*   the buffer length and the number of remote calls at its entry
    closed,            \* history: an __exit__ has returned without raising
    last               \* history: the latest invocation and the exception it raised
                       \*   ("none": it returned, "running": it has not ended yet);
                       \*   for __init__ also its arguments

vars == <<messages_buffer, overwrite_by_id, flush_amount, pc, accepted,
          replaced, calls, exit, closed, last>>

\* ---------------------------------------------------------------- helpers
Min(a, b) == IF a < b THEN a ELSE b
Max(a, b) == IF a > b THEN a ELSE b

\* seq[:n] and seq[n:] of Python, for n >= 1
Head_(s, n) == SubSeq(s, 1, Min(n, Len(s)))
Tail_(s, n) == SubSeq(s, n + 1, Len(s))

\* ------------------------------------------------------------- __init__
\* the value of the parameter flush_amount in the body of __init__
FlushAmountParam(args) == IF args.given THEN args.flush_amount ELSE DefaultFlushAmount

\* mutant: the lower end of the range is not enforced
ClampFlushAmount_NoFloor(arg) == Min(arg, 10)

ClampFlushAmount(arg) == Min(Max(arg, 1), 10)

\* --------------------------------------------------- the remote's answers
\* A failure record of the response's "Failed" list.  SenderFault is True,
\* False, something else (None) or missing.  The Code and the Message of a
\* record are values of their own for every Id.
CodeOf(id) == <<"Code", id>>
MessageOf(id) == <<"Message", id>>

FailureRecordsOf(id) ==
    {[Id |-> id, SenderFault |-> sf, Code |-> CodeOf(id), Message |-> MessageOf(id)] :
        sf \in {"True", "False", "None"}}
        \cup {[Id |-> id, Code |-> CodeOf(id), Message |-> MessageOf(id)]}

\* the "Failed" lists that name the Ids of the set S, one record each, by rising Id
RECURSIVE FailedListsOf(_)
FailedListsOf(S) ==
    IF S = {} THEN {<<>>}
    ELSE LET top == CHOOSE i \in S : \A j \in S : j <= i
         IN  {Append(f, r) : f \in FailedListsOf(S \ {top}), r \in FailureRecordsOf(top)}

\* send_message_batch(Entries=messages_to_send) either raises or returns a
\* response whose "Failed" list names entries of the batch (the code reads no
\* other record of it)
Responses(messages_to_send) ==
    LET batch_ids == {messages_to_send[k].Id : k \in DOMAIN messages_to_send}
    IN  {[raises |-> TRUE, Failed |-> <<>>]}
          \cup {[raises |-> FALSE, Failed |-> f] :
                  f \in UNION {FailedListsOf(S) :
                                 S \in {T \in SUBSET batch_ids : Cardinality(T) <= MaxFailed}}}

\* The answers of a remote that raises no transport error, reports no entry
\* as caller-caused and reports entries as server-caused MaxRetries times in
\* all; reports is the number of its server-caused reports so far
EventuallyAcceptingResponses(messages_to_send, reports) ==
    {r \in Responses(messages_to_send) :
        /\ ~r.raises
        /\ \A i \in DOMAIN r.Failed :
              "SenderFault" \in DOMAIN r.Failed[i] => r.Failed[i].SenderFault # "True"
        /\ reports + Cardinality({p \in DOMAIN messages_to_send :
                \E i \in DOMAIN r.Failed :
                    /\ r.Failed[i].Id = messages_to_send[p].Id
                    /\ "SenderFault" \in DOMAIN r.Failed[i]
                    /\ r.Failed[i].SenderFault = "False"}) <= MaxRetries}

\* {e["Id"]: e for e in response.get("Failed", [])}: the last record of an Id wins
FailedMessages(Failed) ==
    [i \in {Failed[k].Id : k \in DOMAIN Failed} |->
        Failed[CHOOSE k \in DOMAIN Failed :
                  /\ Failed[k].Id = i
                  /\ \A j \in DOMAIN Failed : Failed[j].Id = i => j <= k]]

HasSenderFault(rec) == "SenderFault" \in DOMAIN rec

\* ------------------------------------------------------------ the buffer
\* dict equality of two entries (the history field is not part of the dict)
SameDict(a, b) == a.Id = b.Id /\ a.MessageBody = b.MessageBody

\* list.remove(x): drops the first element equal to x
RECURSIVE ListRemove(_, _)
ListRemove(buf, x) ==
    IF buf = <<>> THEN buf
    ELSE IF SameDict(Head(buf), x) THEN Tail(buf)
    ELSE <<Head(buf)>> \o ListRemove(Tail(buf), x)

\* the for loop of _remove_dup_ids_entry_if_any: the list iterator keeps an
\* index, so the element that follows a removed one is skipped
RECURSIVE RemoveDupLoop(_, _, _)
RemoveDupLoop(buf, new_entry, idx) ==
    IF idx > Len(buf) THEN buf
    ELSE IF new_entry.Id = buf[idx].Id
         THEN RemoveDupLoop(ListRemove(buf, buf[idx]), new_entry, idx + 1)
         ELSE RemoveDupLoop(buf, new_entry, idx + 1)

\* mutant: the loop does not look at the first entry of the buffer
RemoveDupIdsEntryIfAny_SkipsFirst(buf, new_entry) == RemoveDupLoop(buf, new_entry, 2)

\* mutant: the buffered entry of the same Id is kept
RemoveDupIdsEntryIfAny_Keeps(buf, new_entry) == buf

RemoveDupIdsEntryIfAny(buf, new_entry) == RemoveDupLoop(buf, new_entry, 1)

\* mutant: the new entry is put at the head of the buffer
AppendEntry_AtHead(buf, entry) == <<entry>> \o buf

\* self._messages_buffer.append(entry)
AppendEntry(buf, entry) == Append(buf, entry)

\* _add_message_and_process up to the call of _flush_if_needed
AddMessage(buf, entry) ==
    AppendEntry(IF overwrite_by_id THEN RemoveDupIdsEntryIfAny(buf, entry) ELSE buf, entry)

\* mutant: send_message never flushes
FlushNeeded_Never(buf) == FALSE

\* mutants: the threshold is off by one, above and below
FlushNeeded_Above(buf) == Len(buf) > flush_amount
FlushNeeded_Below(buf) == Len(buf) >= flush_amount - 1

\* the condition of _flush_if_needed
FlushNeeded(buf) == Len(buf) >= flush_amount

\* mutant: __exit__ leaves the last entry in the buffer
ExitLoopCond_AboveOne(buf) == Len(buf) > 1

\* mutant: __exit__ flushes whatever the buffer holds
ExitLoopCond_Always(buf) == TRUE

\* mutant: __exit__ stops below the threshold, as _flush_if_needed does
ExitLoopCond_Threshold(buf) == Len(buf) >= flush_amount

\* the condition of the while loop of __exit__
ExitLoopCond(buf) == Len(buf) > 0

\* ----------------------------------------------------------------- _flush
\* mutant: the whole buffer is submitted
MessagesToSend_All(buf) == buf

\* self._messages_buffer[:self._flush_amount]
MessagesToSend(buf) == Head_(buf, flush_amount)

\* mutant: one entry more than the batch is cut off the buffer
RemainingBuffer_OneMore(buf) == Tail_(buf, flush_amount + 1)

\* self._messages_buffer[self._flush_amount:]
RemainingBuffer(buf) == Tail_(buf, flush_amount)

\* _readd_retryable_messages: the list comprehension reads
\* failed_messages[m["Id"]]["SenderFault"] of every listed entry of the batch
ReaddRaisesKeyError(failed_messages, messages_to_send) ==
    \E k \in DOMAIN messages_to_send :
        /\ messages_to_send[k].Id \in DOMAIN failed_messages
        /\ ~HasSenderFault(failed_messages[messages_to_send[k].Id])

IsRetryable(failed_messages, m) ==
    /\ m.Id \in DOMAIN failed_messages
    /\ HasSenderFault(failed_messages[m.Id])
    /\ failed_messages[m.Id].SenderFault = "False"

\* mutant: the retryable entries are re-added in reverse order
RetryableFailedMessages_Reversed(failed_messages, messages_to_send) ==
    LET r == SelectSeq(messages_to_send, LAMBDA m : IsRetryable(failed_messages, m))
    IN  [i \in 1..Len(r) |-> r[Len(r) + 1 - i]]

\* mutant: nothing is re-added
RetryableFailedMessages_None(failed_messages, messages_to_send) == <<>>

RetryableFailedMessages(failed_messages, messages_to_send) ==
    SelectSeq(messages_to_send, LAMBDA m : IsRetryable(failed_messages, m))

\* _fail_for_finally_failed_messages
IsFatal(failed_messages, m) ==
    /\ m.Id \in DOMAIN failed_messages
    /\ HasSenderFault(failed_messages[m.Id])
    /\ failed_messages[m.Id].SenderFault = "True"

\* mutant: only the first entry of the batch is looked at
FatalBatchEntries_FirstOnly(failed_messages, messages_to_send) ==
    SelectSeq(Head_(messages_to_send, 1), LAMBDA m : IsFatal(failed_messages, m))

FatalBatchEntries(failed_messages, messages_to_send) ==
    SelectSeq(messages_to_send, LAMBDA m : IsFatal(failed_messages, m))

FatalFailedMessages(failed_messages, messages_to_send) ==
    LET fatal == FatalBatchEntries(failed_messages, messages_to_send)
    IN  [k \in DOMAIN fatal |-> failed_messages[fatal[k].Id]]

\* the error_response dict handed to ClientError
ErrorResponse(fatal_failed_messages) ==
    [Code |-> fatal_failed_messages[1].Code, Message |-> fatal_failed_messages[1].Code]

NoError == [Code |-> <<>>, Message |-> <<>>]

\* mutant: _fail_for_finally_failed_messages is called before
\* _readd_retryable_messages
Flush_FailsFirst(buf, resp) ==
    LET messages_to_send == MessagesToSend(buf)
        rest == RemainingBuffer(buf)
        failed_messages == FailedMessages(resp.Failed)
        fatal == FatalFailedMessages(failed_messages, messages_to_send)
    IN  IF resp.raises
        THEN [buffer |-> rest, raised |-> "TransportError", error |-> NoError]
        ELSE IF ReaddRaisesKeyError(failed_messages, messages_to_send)
        THEN [buffer |-> rest, raised |-> "KeyError", error |-> NoError]
        ELSE IF Len(fatal) > 0
        THEN [buffer |-> rest, raised |-> "ClientError", error |-> ErrorResponse(fatal)]
        ELSE [buffer |-> rest \o RetryableFailedMessages(failed_messages, messages_to_send),
              raised |-> "none", error |-> NoError]

\* mutant: the batch is put back when the remote call raises
Flush_PutsBack(buf, resp) ==
    LET messages_to_send == MessagesToSend(buf)
        rest == RemainingBuffer(buf)
        failed_messages == FailedMessages(resp.Failed)
        fatal == FatalFailedMessages(failed_messages, messages_to_send)
    IN  IF resp.raises
        THEN [buffer |-> rest \o messages_to_send, raised |-> "TransportError",
              error |-> NoError]
        ELSE IF ReaddRaisesKeyError(failed_messages, messages_to_send)
        THEN [buffer |-> rest, raised |-> "KeyError", error |-> NoError]
        ELSE IF Len(fatal) > 0
        THEN [buffer |-> rest \o RetryableFailedMessages(failed_messages, messages_to_send),
              raised |-> "ClientError", error |-> ErrorResponse(fatal)]
        ELSE [buffer |-> rest \o RetryableFailedMessages(failed_messages, messages_to_send),
              raised |-> "none", error |-> NoError]

\* _flush as a function of the buffer and the remote's answer:
\* the new buffer, the exception that leaves _flush and its error_response
Flush(buf, resp) ==
    LET messages_to_send == MessagesToSend(buf)
        rest == RemainingBuffer(buf)
        failed_messages == FailedMessages(resp.Failed)
        fatal == FatalFailedMessages(failed_messages, messages_to_send)
    IN  IF resp.raises
        THEN [buffer |-> rest, raised |-> "TransportError", error |-> NoError]
        ELSE IF ReaddRaisesKeyError(failed_messages, messages_to_send)
        THEN [buffer |-> rest, raised |-> "KeyError", error |-> NoError]
        ELSE IF Len(fatal) > 0
        THEN [buffer |-> rest \o RetryableFailedMessages(failed_messages, messages_to_send),
              raised |-> "ClientError", error |-> ErrorResponse(fatal)]
        ELSE [buffer |-> rest \o RetryableFailedMessages(failed_messages, messages_to_send),
              raised |-> "none", error |-> NoError]

\* the history record of one send_message_batch call: the batch, the records
\* of the response that name an Id of the batch, how _flush ended, the
\* invocation that made the call (send_message number no, or the __exit__
\* entered after no remote calls), and the buffer when _flush was entered and
\* when it was left
CallRecord(buf, resp, out, by) ==
    LET messages_to_send == MessagesToSend(buf)
        failed_messages == FailedMessages(resp.Failed)
        batch_ids == {messages_to_send[k].Id : k \in DOMAIN messages_to_send}
    IN  [Entries |-> messages_to_send,
         returned |-> ~resp.raises,
         failed |-> [i \in (DOMAIN failed_messages) \cap batch_ids |-> failed_messages[i]],
         raised |-> out.raised,
         error |-> out.error,
         by |-> by,
         buffered |-> Len(buf),
         before |-> buf,
         after |-> out.buffer]

\* ------------------------------------------------------------------- Init
Init ==
    /\ messages_buffer = <<>>
    /\ overwrite_by_id \in BOOLEAN
    /\ \E args \in CtorArgs :
          /\ flush_amount = ClampFlushAmount(FlushAmountParam(args))
          /\ last = [op |-> "init", raised |-> "none", args |-> args]
    /\ pc = "idle"
    /\ accepted = <<>>
    /\ replaced = {}
    /\ calls = <<>>
    /\ exit = [entered |-> FALSE, buffered |-> 0, calls |-> 0]
    /\ closed = FALSE

\* ---------------------------------------------------------------- actions
\* The Ids a send_message call may carry: one already sent, or the least one
\* not sent yet (the code compares Ids for equality only, so which fresh Id
\* comes next does not matter)
NextIds ==
    LET used == {accepted[k].Id : k \in DOMAIN accepted}
    IN  {i \in Ids : i \in used \/ \A j \in 1..(i - 1) : j \in used}

\* The sender is used as the with statement uses it: send_message calls, then
\* __exit__ (which may be called again); a send_message that raised leaves the
\* sender usable.

\* mutant: the entry is appended before the Id is looked for
SendMessageMissingId_AppendsFirst ==
    /\ pc = "idle"
    /\ ~exit.entered
    /\ \E body \in Bodies :
        LET kwargs == [MessageBody |-> body]
        IN  /\ "Id" \notin DOMAIN kwargs
            /\ messages_buffer' = Append(messages_buffer, kwargs)
            /\ last' = [op |-> "send_message", raised |-> "MissingParametersError"]
    /\ UNCHANGED <<overwrite_by_id, flush_amount, pc, accepted,
                   replaced, calls, exit, closed>>

\* send_message(**kwargs) without an Id
SendMessageMissingId ==
    /\ pc = "idle"
    /\ ~exit.entered
    /\ \E body \in Bodies :
        LET kwargs == [MessageBody |-> body]
        IN  /\ "Id" \notin DOMAIN kwargs
            /\ last' = [op |-> "send_message", raised |-> "MissingParametersError"]
    /\ UNCHANGED <<messages_buffer, overwrite_by_id, flush_amount, pc, accepted,
                   replaced, calls, exit, closed>>

\* the number of server-caused reports in the call history: the entries of
\* the batches whose Id the response lists with SenderFault False
ServerCausedReports ==
    Cardinality({kp \in UNION {{<<k, p>> : p \in DOMAIN calls[k].Entries} : k \in DOMAIN calls} :
        LET k == kp[1]
            m == calls[k].Entries[kp[2]]
        IN  /\ calls[k].returned
            /\ m.Id \in DOMAIN calls[k].failed
            /\ "SenderFault" \in DOMAIN calls[k].failed[m.Id]
            /\ calls[k].failed[m.Id].SenderFault = "False"})

\* what send_message_batch may answer: anything (the number of calls is then
\* bounded), or what the eventually accepting remote answers
RemoteAnswers(messages_to_send, accepting) ==
    IF accepting
    THEN EventuallyAcceptingResponses(messages_to_send, ServerCausedReports)
    ELSE Responses(messages_to_send)

CallAllowed(accepting) == accepting \/ Len(calls) < MaxCalls

\* send_message(**kwargs) with an Id: dedup, append, flush if needed
SendMessageTo(accepting) ==
    /\ pc = "idle"
    /\ ~exit.entered
    /\ Len(accepted) < MaxSends
    /\ CallAllowed(accepting)
    /\ \E id \in NextIds, body \in Bodies :
        LET entry == [Id |-> id, MessageBody |-> body, seq |-> Len(accepted) + 1]
            buf == AddMessage(messages_buffer, entry)
            kept == {buf[k].seq : k \in DOMAIN buf}
            removed == {messages_buffer[k].seq : k \in DOMAIN messages_buffer} \ kept
        IN  /\ "Id" \in DOMAIN entry
            /\ accepted' = Append(accepted, entry)
            /\ replaced' = replaced \cup
                  {[old |-> s, new |-> entry.seq, calls |-> Len(calls),
                    ahead |-> kept \ {entry.seq}] : s \in removed}
            /\ IF FlushNeeded(buf)
               THEN \E resp \in RemoteAnswers(MessagesToSend(buf), accepting) :
                      LET out == Flush(buf, resp)
                      IN  /\ messages_buffer' = out.buffer
                          /\ calls' = Append(calls, CallRecord(buf, resp, out,
                                    [op |-> "send_message", no |-> entry.seq]))
                          /\ last' = [op |-> "send_message", raised |-> out.raised]
               ELSE /\ messages_buffer' = buf
                    /\ calls' = calls
                    /\ last' = [op |-> "send_message", raised |-> "none"]
    /\ UNCHANGED <<overwrite_by_id, flush_amount, pc, exit, closed>>

SendMessage == SendMessageTo(FALSE)

\* __exit__ is entered
ExitEnter ==
    /\ pc = "idle"
    /\ pc' = "exit"
    /\ exit' = [entered |-> TRUE, buffered |-> Len(messages_buffer), calls |-> Len(calls)]
    /\ last' = [op |-> "__exit__", raised |-> "running"]
    /\ UNCHANGED <<messages_buffer, overwrite_by_id, flush_amount, accepted, replaced,
                   calls, closed>>

\* one iteration of the while loop of __exit__
ExitFlushTo(accepting) ==
    /\ pc = "exit"
    /\ ExitLoopCond(messages_buffer)
    /\ CallAllowed(accepting)
    /\ \E resp \in RemoteAnswers(MessagesToSend(messages_buffer), accepting) :
        LET out == Flush(messages_buffer, resp)
            rec == CallRecord(messages_buffer, resp, out,
                              [op |-> "__exit__", no |-> exit.calls])
        IN  /\ messages_buffer' = out.buffer
            /\ calls' = Append(calls, rec)
            /\ IF out.raised = "none"
               THEN UNCHANGED <<pc, last>>
               ELSE /\ pc' = "idle"
                    /\ last' = [op |-> "__exit__", raised |-> out.raised]
    /\ UNCHANGED <<overwrite_by_id, flush_amount, accepted, replaced, exit, closed>>

ExitFlush == ExitFlushTo(FALSE)

\* the loop condition of __exit__ is false: __exit__ returns
ExitReturn ==
    /\ pc = "exit"
    /\ ~ExitLoopCond(messages_buffer)
    /\ pc' = "idle"
    /\ closed' = TRUE
    /\ last' = [op |-> "__exit__", raised |-> "none"]
    /\ UNCHANGED <<messages_buffer, overwrite_by_id, flush_amount, accepted,
                   replaced, calls, exit>>

Next ==
    \/ SendMessageMissingId
    \/ SendMessage
    \/ ExitEnter
    \/ ExitFlush
    \/ ExitReturn

Spec == Init /\ [][Next]_vars

\* The sender with the eventually accepting remote.  __exit__ is sequential
\* code: once entered, its loop goes on (the remote call returns), so its
\* steps are weakly fair; nothing obliges the caller to call anything.
SendMessageAccepting == SendMessageTo(TRUE)
ExitFlushAccepting == ExitFlushTo(TRUE)

NextAccepting ==
    \/ SendMessageMissingId
    \/ SendMessageAccepting
    \/ ExitEnter
    \/ ExitFlushAccepting
    \/ ExitReturn

SpecAccepting ==
    /\ Init
    /\ [][NextAccepting]_vars
    /\ WF_vars(ExitFlushAccepting)
    /\ WF_vars(ExitReturn)

\* ------------------------------------------------- reading the history
Accepted == DOMAIN accepted          \* the entries, by their seq
CallNos == DOMAIN calls

InBuffer(s) == \E p \in DOMAIN messages_buffer : messages_buffer[p].seq = s
InBatch(s, k) == \E p \in DOMAIN calls[k].Entries : calls[k].Entries[p].seq = s
PosInBatch(s, k) == CHOOSE p \in DOMAIN calls[k].Entries : calls[k].Entries[p].seq = s
Submitted(s) == \E k \in CallNos : InBatch(s, k)

\* the response of call k lists the Id of entry s
Listed(s, k) == calls[k].returned /\ accepted[s].Id \in DOMAIN calls[k].failed

\* the response of call k lists entry s of its batch with SenderFault sf
ReportedAs(s, k, sf) ==
    /\ Listed(s, k)
    /\ HasSenderFault(calls[k].failed[accepted[s].Id])
    /\ calls[k].failed[accepted[s].Id].SenderFault = sf
    /\ InBatch(s, k)

ServerReported(s) == \E k \in CallNos : ReportedAs(s, k, "False")
Acknowledged(s) == \E k \in CallNos : InBatch(s, k) /\ calls[k].returned /\ ~Listed(s, k)
CallerFailedAndRaised(s) ==
    \E k \in CallNos : ReportedAs(s, k, "True") /\ calls[k].raised = "ClientError"
Replaced(s) == \E r \in replaced : r.old = s

\* every record of response k that names an entry of the batch has a SenderFault
AllHaveSenderFault(k) == \A i \in DOMAIN calls[k].failed : HasSenderFault(calls[k].failed[i])

\* no transport error so far, and every record is classified True or False
RemoteWellBehaved ==
    \A k \in CallNos :
        /\ calls[k].returned
        /\ AllHaveSenderFault(k)
        /\ \A i \in DOMAIN calls[k].failed : calls[k].failed[i].SenderFault \in {"True", "False"}

\* an __exit__ has returned without raising
ClosedOk == closed

\* the remote calls the latest __exit__ has made
ExitCalls == {k \in CallNos : calls[k].by = [op |-> "__exit__", no |-> exit.calls]}

B2N(b) == IF b THEN 1 ELSE 0

\* ----------------------------------------------------------------- claims

\* C1: every send_message_batch call carries at most flush_amount entries,
\* also when the buffer held more than flush_amount entries at the flush.
C1_BatchAtMostFlushAmount ==
    \A k \in CallNos : Len(calls[k].Entries) <= flush_amount

\* C1 witness: a flush of a buffer longer than flush_amount that holds a
\* re-buffered entry next to a new one.
C1_Witness ==
    \E k \in CallNos :
        /\ calls[k].buffered > flush_amount
        /\ \E s \in Accepted : InBatch(s, k) /\ \E j \in 1..(k - 1) : ReportedAs(s, j, "False")
        /\ Len(calls[k].Entries) = flush_amount

\* C2: while the remote raises no transport error and classifies every failure
\* record True or False, each accepted entry is in exactly one of: in the
\* buffer, acknowledged, reported caller-caused by a flush that raised,
\* replaced by a later send_message of the same Id.
C2_NoEntrySilentlyDropped ==
    RemoteWellBehaved =>
        \A s \in Accepted :
            B2N(InBuffer(s)) + B2N(Acknowledged(s)) + B2N(CallerFailedAndRaised(s))
                + B2N(Replaced(s)) = 1

\* C2 witness: a re-buffered entry in the buffer, an acknowledged entry and a
\* caller-failed entry, after well-behaved responses only.
C2_Witness ==
    /\ RemoteWellBehaved
    /\ \E s \in Accepted : InBuffer(s) /\ ServerReported(s)
    /\ \E s \in Accepted : Acknowledged(s)
    /\ \E s \in Accepted : CallerFailedAndRaised(s)

\* C3: when __exit__ has returned without raising, the buffer is empty.
C3_ExitReturnsWithEmptyBuffer ==
    (pc = "idle" /\ last.op = "__exit__" /\ last.raised = "none") => messages_buffer = <<>>

\* C3 witness: an __exit__ that returned after more remote calls than
\* ceil(buffered entries / flush_amount).
C3_Witness ==
    /\ pc = "idle" /\ last.op = "__exit__" /\ last.raised = "none"
    /\ exit.buffered > 0
    /\ (Cardinality(ExitCalls) - 1) * flush_amount >= exit.buffered

\* C4: of two entries never reported server-caused and never replaced, the one
\* accepted first is submitted first: in an earlier batch, or earlier in the
\* same batch.
C4_SubmittedInOrderReceived ==
    LET moved == {s \in Accepted : ServerReported(s) \/ Replaced(s)}
    IN  \A kt \in CallNos : \A pt \in DOMAIN calls[kt].Entries :
            LET t == calls[kt].Entries[pt].seq
            IN  t \notin moved =>
                    \A s \in (1..(t - 1)) \ moved :
                        \E ks \in 1..kt : \E ps \in DOMAIN calls[ks].Entries :
                            /\ calls[ks].Entries[ps].seq = s
                            /\ ks < kt \/ ps < pt

\* C4 witness: two such entries submitted in different batches, and an entry
\* accepted before both that a server-caused failure moved behind the first.
C4_Witness ==
    \E u, s, t \in Accepted :
        /\ u < s /\ s < t
        /\ ~ServerReported(s) /\ ~ServerReported(t)
        /\ \E ks, kt \in CallNos :
              /\ ks < kt /\ InBatch(s, ks) /\ InBatch(t, kt)
              /\ ReportedAs(u, ks, "False") /\ InBatch(u, kt)

\* the entries of batch k that the response lists as server-caused
ServerCausedIn(k) ==
    {calls[k].Entries[p].seq : p \in {q \in DOMAIN calls[k].Entries :
        /\ calls[k].returned
        /\ calls[k].Entries[q].Id \in DOMAIN calls[k].failed
        /\ HasSenderFault(calls[k].failed[calls[k].Entries[q].Id])
        /\ calls[k].failed[calls[k].Entries[q].Id].SenderFault = "False"}}

\* the batches after call k that carry entry s before s is reported
\* server-caused again
LaterSubmissions(s, k) ==
    {j \in CallNos :
        /\ j > k
        /\ InBatch(s, j)
        /\ \A i \in (k + 1)..(j - 1) : ~ReportedAs(s, i, "False")}

SubmittedUnchanged(s, j) == calls[j].Entries[PosInBatch(s, j)] = accepted[s]

\* C5 as claimed: an entry reported server-caused is re-submitted in exactly
\* one later batch for that report: never twice, and once the sender is closed
\* never zero times, unchanged.  (Stated for the responses whose records all
\* have a SenderFault, the claim's most favourable reading.)
C5_Original ==
    \A k \in CallNos :
        (calls[k].returned /\ AllHaveSenderFault(k)) =>
            \A s \in ServerCausedIn(k) :
                LET later == LaterSubmissions(s, k)
                IN  /\ Cardinality(later) <= 1
                    /\ ClosedOk => Cardinality(later) = 1
                    /\ \A j \in later : SubmittedUnchanged(s, j)

\* C5 amended: the same, for a response whose records for the batch all have a
\* SenderFault and an entry that no later send_message of the same Id replaced.
C5_RetriedExactlyOnce ==
    \A k \in CallNos :
        (calls[k].returned /\ AllHaveSenderFault(k)) =>
            \A s \in ServerCausedIn(k) :
                LET later == LaterSubmissions(s, k)
                IN  /\ Cardinality(later) <= 1
                    /\ (ClosedOk /\ ~Replaced(s)) => Cardinality(later) = 1
                    /\ \A j \in later : SubmittedUnchanged(s, j)

\* C5 witness: the sender is closed and an entry reported server-caused was
\* re-submitted once, in a later batch, next to an entry sent after it.
C5_Witness ==
    /\ ClosedOk
    /\ \E s \in Accepted : \E k \in CallNos :
          /\ s \in ServerCausedIn(k)
          /\ AllHaveSenderFault(k)
          /\ \E j \in CallNos :
                /\ LaterSubmissions(s, k) = {j}
                /\ Len(calls[j].Entries) > 1

\* the remote has reported no failure so far
NoFailures == \A k \in CallNos : calls[k].returned /\ DOMAIN calls[k].failed = {}
DistinctIds == \A s, t \in Accepted : s # t => accepted[s].Id # accepted[t].Id

\* C6: after N * flush_amount entries of distinct Ids and no failures there
\* were exactly N calls, call k carried the entries (k-1)*flush_amount+1 ..
\* k*flush_amount in submission order, and the buffer is empty.
C6_ExactlyNCallsOfContiguousSlices ==
    (/\ pc = "idle" /\ ~exit.entered
     /\ NoFailures /\ DistinctIds
     /\ Len(accepted) % flush_amount = 0)
    => /\ Len(calls) = Len(accepted) \div flush_amount
       /\ \A k \in CallNos :
             calls[k].Entries =
                 SubSeq(accepted, (k - 1) * flush_amount + 1, k * flush_amount)
       /\ messages_buffer = <<>>

\* C6 witness: N >= 2.
C6_Witness ==
    /\ pc = "idle" /\ ~exit.entered
    /\ NoFailures /\ DistinctIds
    /\ Len(accepted) % flush_amount = 0
    /\ Len(calls) >= 2

\* the accepted entries that were not replaced, in order
NotReplacedEntries == SelectSeq(accepted, LAMBDA e : ~Replaced(e.seq))

\* C7: with fewer than flush_amount entries sent, every remote call is made by
\* __exit__, the first one submits the entries, and an __exit__ that returned
\* has made it.
C7_NoCallBelowThresholdUntilExit ==
    Len(accepted) < flush_amount =>
        /\ \A k \in CallNos : calls[k].by.op = "__exit__"
        /\ calls # <<>> => calls[1].Entries = NotReplacedEntries
        /\ (ClosedOk /\ accepted # <<>>) => calls # <<>>

\* C7 witness: two entries below the threshold, submitted by __exit__.
C7_Witness ==
    /\ Len(accepted) < flush_amount
    /\ ClosedOk
    /\ calls # <<>>
    /\ Len(calls[1].Entries) >= 2

\* the entries of batch k that the response lists as caller-caused
CallerCausedIn(k) ==
    {calls[k].Entries[p].seq : p \in {q \in DOMAIN calls[k].Entries :
        /\ calls[k].returned
        /\ calls[k].Entries[q].Id \in DOMAIN calls[k].failed
        /\ HasSenderFault(calls[k].failed[calls[k].Entries[q].Id])
        /\ calls[k].failed[calls[k].Entries[q].Id].SenderFault = "True"}}

\* the response of call k lists an entry of the batch as caller-caused
ListsCallerCaused(k) == CallerCausedIn(k) # {}

\* what C8 says of call k: the triggering call raised ClientError, made no
\* later remote call, and the caller-failed entries are not in the buffer
RejectedAndStopped(k) ==
    /\ calls[k].raised = "ClientError"
    /\ \A j \in CallNos : j > k => calls[j].by # calls[k].by
    /\ \A s \in CallerCausedIn(k) : ~InBuffer(s)

\* C8 as claimed: a response that lists an entry of the batch as caller-caused
\* makes the triggering call raise ClientError and stop.
C8_Original ==
    \A k \in CallNos : ListsCallerCaused(k) => RejectedAndStopped(k)

\* C8 amended: the same, for a response whose records for the batch all have a
\* SenderFault (and, as all records here, a Code).
C8_CallerFaultRaisesAndStops ==
    \A k \in CallNos : (ListsCallerCaused(k) /\ AllHaveSenderFault(k)) => RejectedAndStopped(k)

\* C8 witness: __exit__ raised ClientError and left entries in the buffer.
C8_Witness ==
    /\ pc = "idle" /\ last.op = "__exit__" /\ last.raised = "ClientError"
    /\ messages_buffer # <<>>
    /\ ListsCallerCaused(Len(calls))

\* the failure record of the first entry of batch k listed as caller-caused
FirstCallerFailedRecord(k) ==
    LET p == CHOOSE q \in DOMAIN calls[k].Entries :
                 /\ ReportedAs(calls[k].Entries[q].seq, k, "True")
                 /\ \A r \in 1..(q - 1) : ~ReportedAs(calls[k].Entries[r].seq, k, "True")
    IN  calls[k].failed[calls[k].Entries[p].Id]

\* C9: the ClientError of a flush carries the Code and the Message of the
\* failure record of the first caller-failed entry of the batch.
C9_ErrorCarriesCodeAndMessage ==
    \A k \in CallNos :
        calls[k].raised = "ClientError" =>
            /\ calls[k].error.Code = FirstCallerFailedRecord(k).Code
            /\ calls[k].error.Message = FirstCallerFailedRecord(k).Message

C11_MissingIdMutatesNothing ==
    [][SendMessageMissingId =>
          /\ last'.op = "send_message" /\ last'.raised = "MissingParametersError"
          /\ messages_buffer' = messages_buffer
          /\ calls' = calls]_vars

\* C11 witness: the error was raised with entries in the buffer, one of them
\* re-buffered by an earlier remote call.
C11_Witness ==
    /\ last.op = "send_message" /\ last.raised = "MissingParametersError"
    /\ \E s \in Accepted : InBuffer(s) /\ ServerReported(s)

\* C12: every remote call carries at least one entry, and an __exit__ entered
\* with an empty buffer (so also one that follows an __exit__ that returned)
\* makes no remote call.
C12_NoEmptyBatch ==
    /\ \A k \in CallNos : Len(calls[k].Entries) >= 1
    /\ (exit.entered /\ exit.buffered = 0) => Len(calls) = exit.calls
    /\ closed => messages_buffer = <<>>

\* C12 witness: an __exit__ made remote calls and returned, and the __exit__
\* after it has returned too.
C12_Witness ==
    /\ closed
    /\ pc = "idle" /\ last.op = "__exit__" /\ last.raised = "none"
    /\ exit.buffered = 0
    /\ \E k \in CallNos : calls[k].by.op = "__exit__"

\* the threshold the claim gives for the arguments of __init__
ClampedThreshold(args) ==
    IF ~args.given THEN 10
    ELSE IF args.flush_amount < 1 THEN 1
    ELSE IF args.flush_amount > 10 THEN 10
    ELSE args.flush_amount

\* C13: after construction the threshold is the given flush_amount clamped to
\* [1, 10], 10 when none is given; no operation changes it.
C13_ThresholdClampedAndFixed ==
    /\ [](last.op = "init" => flush_amount = ClampedThreshold(last.args))
    /\ [][flush_amount' = flush_amount]_vars

\* C13 witness: a sender constructed with a flush_amount below 1.
C13_Witness ==
    /\ last.op = "init"
    /\ last.args.given /\ last.args.flush_amount < 1
    /\ flush_amount = 1

\* the buffer the claim C14 gives for the end of call k: the buffer at its
\* start without its first flush_amount entries, then the entries of the batch
\* listed as server-caused, in batch order
BufferAfterTriage(k) ==
    SubSeq(calls[k].before, flush_amount + 1, Len(calls[k].before))
        \o SelectSeq(calls[k].Entries, LAMBDA m : m.seq \in ServerCausedIn(k))

\* C14 as claimed: after every flush whose remote call returned a response the
\* buffer is the rest of the old buffer followed by the server-failed entries
\* of the batch.
C14_Original ==
    \A k \in CallNos : calls[k].returned => calls[k].after = BufferAfterTriage(k)

\* C14 amended: the same, for a response whose records for the batch all have a
\* SenderFault.
C14_BufferAfterFlush ==
    \A k \in CallNos :
        (calls[k].returned /\ AllHaveSenderFault(k)) => calls[k].after = BufferAfterTriage(k)

\* C14 witness: a flush of a buffer longer than flush_amount whose response
\* lists two entries of the batch as server-caused.
C14_Witness ==
    \E k \in CallNos :
        /\ calls[k].returned /\ AllHaveSenderFault(k)
        /\ Len(calls[k].before) > flush_amount
        /\ Cardinality(ServerCausedIn(k)) >= 2

\* C15: in the state a caller sees when a flush has raised ClientError, the
\* server-failed entries of that batch are the last entries of the buffer and
\* its caller-failed entries are not in the buffer.
C15_RetryablesRebufferedBeforeRaise ==
    last.raised = "ClientError" =>
        LET k == Len(calls)
            n == Cardinality(ServerCausedIn(k))
        IN  /\ calls[k].raised = "ClientError"
            /\ messages_buffer = calls[k].after
            /\ \A s \in ServerCausedIn(k) :
                  \E p \in DOMAIN messages_buffer :
                      /\ p > Len(messages_buffer) - n
                      /\ messages_buffer[p] = accepted[s]
            /\ \A s \in CallerCausedIn(k) : ~InBuffer(s)

\* C15 witness: send_message raised ClientError for a response that lists one
\* entry of the batch as caller-caused and another as server-caused.
C15_Witness ==
    /\ last.op = "send_message" /\ last.raised = "ClientError"
    /\ ServerCausedIn(Len(calls)) # {}
    /\ CallerCausedIn(Len(calls)) # {}

\* C16: a remote call that raises makes the invocation raise the same error
\* and make no further call; the batch is not put back: the buffer is the old
\* buffer without its first flush_amount entries.
C16_TransportErrorDropsBatch ==
    /\ \A k \in CallNos :
          ~calls[k].returned =>
              /\ calls[k].raised = "TransportError"
              /\ calls[k].after =
                    SubSeq(calls[k].before, flush_amount + 1, Len(calls[k].before))
              /\ \A j \in CallNos : j > k => calls[j].by # calls[k].by
    /\ last.raised = "TransportError" =>
          LET k == Len(calls)
          IN  /\ pc = "idle"
              /\ ~calls[k].returned
              /\ last.op = calls[k].by.op
              /\ messages_buffer = calls[k].after
              /\ \A p \in DOMAIN calls[k].Entries : ~InBuffer(calls[k].Entries[p].seq)

\* C16 witness: a call raised the transport error of its remote call and the
\* entries that were behind the batch are in the buffer.
C16_Witness ==
    /\ last.raised = "TransportError"
    /\ messages_buffer # <<>>

\* __exit__ has returned to its caller and the buffer is empty
ExitReturnedEmpty ==
    /\ pc = "idle" /\ last.op = "__exit__" /\ last.raised = "none"
    /\ messages_buffer = <<>>

\* a response had a record for an entry of its batch without a SenderFault
RecordWithoutSenderFaultSeen == \E k \in CallNos : ~AllHaveSenderFault(k)

\* entry s was submitted in a batch whose response did not list it
AcknowledgedBySomeBatch(s) ==
    \E k \in CallNos :
        /\ InBatch(s, k)
        /\ calls[k].returned
        /\ calls[k].Entries[PosInBatch(s, k)].Id \notin DOMAIN calls[k].failed

\* entry s was submitted in a batch whose response did not list it as
\* server-caused
NotRetryableInSomeBatch(s) ==
    \E k \in CallNos : InBatch(s, k) /\ calls[k].returned /\ s \notin ServerCausedIn(k)

\* the entries the latest __exit__ has submitted: with an empty buffer, the
\* entries that were in the buffer when it was entered
DrainedByExit == UNION {{calls[k].Entries[p].seq : p \in DOMAIN calls[k].Entries} : k \in ExitCalls}

\* C17 as claimed: with a remote that reports entries as server-caused at most
\* MaxRetries times, no entry as caller-caused and raises no transport error,
\* an __exit__ that was entered returns with an empty buffer, every entry that
\* was in the buffer submitted in a batch that acknowledged it.
C17_Original ==
    (pc = "exit") ~> (/\ ExitReturnedEmpty
                      /\ \A s \in DrainedByExit : AcknowledgedBySomeBatch(s))

\* C17 amended: with that remote, an __exit__ that was entered returns with an
\* empty buffer, every entry that was in the buffer submitted in a batch whose
\* response does not list it as server-caused, unless a response has a record
\* for an entry of its batch without a SenderFault (the flush then raises
\* KeyError).
C17_ExitDrains ==
    (pc = "exit") ~> (\/ /\ ExitReturnedEmpty
                         /\ \A s \in DrainedByExit : NotRetryableInSomeBatch(s)
                      \/ RecordWithoutSenderFaultSeen)

\* C17 witness: an __exit__ has returned with an empty buffer after one of its
\* remote calls reported an entry as server-caused and a later one
\* acknowledged that entry.
C17_Witness ==
    /\ ExitReturnedEmpty
    /\ ~RecordWithoutSenderFaultSeen
    /\ \E k \in ExitCalls : \E s \in ServerCausedIn(k) :
          \E j \in ExitCalls : j > k /\ InBatch(s, j) /\ ~Listed(s, j)

\* the response of call k lists entry p of its batch with a record whose
\* SenderFault is missing or is neither True nor False
Unclassified(k, p) ==
    LET m == calls[k].Entries[p]
    IN  /\ calls[k].returned
        /\ m.Id \in DOMAIN calls[k].failed
        /\ \/ ~HasSenderFault(calls[k].failed[m.Id])
           \/ calls[k].failed[m.Id].SenderFault \notin {"True", "False"}

\* C18: a flush whose response lists an entry of the batch with a missing or
\* malformed SenderFault raises an error, and the entry is not put back into
\* the buffer.
C18_UnclassifiedRecordFailsFlush ==
    \A k \in CallNos : \A p \in DOMAIN calls[k].Entries :
        Unclassified(k, p) =>
            /\ calls[k].raised # "none"
            /\ \A q \in DOMAIN calls[k].after :
                  calls[k].after[q].seq # calls[k].Entries[p].seq

\* C19: with overwrite_by_id no two entries of the buffer have the same Id,
\* and a send_message removes at most one buffered entry.
C19_BufferIdsUnique ==
    overwrite_by_id =>
        /\ \A p, q \in DOMAIN messages_buffer :
              p # q => messages_buffer[p].Id # messages_buffer[q].Id
        /\ \A r1, r2 \in replaced : r1.new = r2.new => r1.old = r2.old

\* C19 witness: an entry was replaced and the buffer holds two entries, one
\* of them re-buffered after a server-caused failure.
C19_Witness ==
    /\ overwrite_by_id
    /\ replaced # {}
    /\ Len(messages_buffer) >= 2
    /\ \E s \in Accepted : InBuffer(s) /\ ServerReported(s)

\* C20: no send_message makes two remote calls (a call made by send_message
\* shares its invocation with no other call), and while no response has
\* listed a failure the buffer is shorter than flush_amount whenever no call
\* is in progress.
C20_OneFlushPerSendMessage ==
    /\ \A j, k \in CallNos :
          (j # k /\ calls[j].by.op = "send_message") => calls[j].by # calls[k].by
    /\ (/\ pc = "idle" /\ ~exit.entered
        /\ \A k \in CallNos : DOMAIN calls[k].failed = {})
       => Len(messages_buffer) < flush_amount

\* C20 witness: send_message has returned after its one remote call and the
\* buffer holds more than flush_amount entries.
C20_Witness ==
    /\ last.op = "send_message" /\ last.raised = "none"
    /\ calls # <<>> /\ calls[Len(calls)].by = [op |-> "send_message", no |-> Len(accepted)]
    /\ Len(messages_buffer) > flush_amount

====
